---- MODULE Spec2Model ----
(***************************************************************************)
(* minio-statemap: print_states (src/src/main.rs).                         *)
(*                                                                         *)
(* The program reads a MinIO trace file, folds every record into           *)
(*   start       the earliest inferred begin time (Epoch),                 *)
(*   metamap     operation name -> state number (the registry),            *)
(*   host_states host -> records of that host in arrival order,            *)
(* then adds the "waiting" state, prints the statemap header, and prints   *)
(* two states per record, host by host, counting out-of-order records.     *)
(*                                                                         *)
(* One action per step of print_states: one fold step per record, the      *)
(* insertion of "waiting", the header, the start of one host's loop, one   *)
(* iteration of the inner loop, and the final summary.                     *)
(***************************************************************************)
EXTENDS Integers, Sequences, FiniteSets

VARIABLES
    raw_data,         \* the records of the input file, in file order
    overflow_checks,  \* build profile: TRUE = arithmetic overflow panics
    pc,               \* position in print_states
    idx,              \* number of records the fold has consumed
    start,            \* Option<u64>: <<>> is None, <<v>> is Some(v)
    metamap,          \* Map<String, Value>: name -> [value, color]
    num_states,       \* next state number to hand out
    host_states,      \* HashMap<String, Vec<TraceData>>
    waiting_state,    \* u64 code of "waiting"
    header,           \* Option<StateHeader>: <<>> until it is built
    stdout,           \* lines printed with println!
    stderr,           \* lines printed with eprintln!
    nerrors,          \* out-of-order records found
    nstates,          \* states printed
    hosts_left,       \* hosts the outer loop has not visited yet
    cur_host,         \* host of the running inner loop: <<>> or <<h>>
    pos,              \* records of cur_host already emitted
    prev_api,         \* api of the previous record of cur_host
    prev_ts,          \* time of the previous record of cur_host
    panic             \* <<>> or <<message>> of the panic that ended the run

vars == <<raw_data, overflow_checks, pc, idx, start, metamap, num_states,
          host_states, waiting_state, header, stdout, stderr, nerrors,
          nstates, hosts_left, cur_host, pos, prev_api, prev_ts, panic>>

-----------------------------------------------------------------------------
(* Bounds of the input space.                                              *)

MaxLen == 3

Hosts == {"h1", "h2"}

Apis == {"PutObject", "GetObject", "waiting"}

\* Completion timestamp and duration of a record:
\*   an instantaneous operation that ends 1 ns after 1970-01-01T00:00:00Z,
\*   an operation that ends at 1 ns and claims to have lasted 2 ns,
\*   an operation that runs from 1 s + 1 ns to 1 s + 3 ns.
Stamps ==
    {[time |-> [secs |-> 0, nanos |-> 1], duration |-> 0],
     [time |-> [secs |-> 0, nanos |-> 1], duration |-> 2],
     [time |-> [secs |-> 1, nanos |-> 3], duration |-> 2]}

\* A timestamp before 1970: timestamp() is negative.
Pre1970 == [secs |-> -1, nanos |-> 0]

-----------------------------------------------------------------------------
(* Integer widths and constants.                                           *)

\* u64 is modelled with 30 bits, the widest power of two that leaves the
\* model checker's integers room for a difference and still exceeds one second of
\* nanoseconds.
U64Bits == 30

U64Mod == 2 ^ U64Bits

NanosPerSec == 1000000000

-----------------------------------------------------------------------------
(* Records of the trace file.                                              *)

\* Result<TraceData, serde_json::Error>: ok = FALSE is the Err case.
TraceData(h, t, d, a) ==
    [ok |-> TRUE, host |-> h, time |-> t, call_stats |-> [duration |-> d],
     api |-> a]

Malformed ==
    [ok |-> FALSE, host |-> "", time |-> [secs |-> 0, nanos |-> 0],
     call_stats |-> [duration |-> 0], api |-> ""]

ValidRecords ==
    {TraceData(h, s.time, s.duration, a) : h \in Hosts, s \in Stamps, a \in Apis}

Records == ValidRecords \cup {TraceData("h1", Pre1970, 0, "PutObject"), Malformed}

RECURSIVE SeqsUpTo(_, _)
SeqsUpTo(S, n) ==
    IF n = 0 THEN {<<>>}
    ELSE LET shorter == SeqsUpTo(S, n - 1)
         IN  shorter \cup {Append(s, r) : s \in {q \in shorter : Len(q) = n - 1},
                                          r \in S}

-----------------------------------------------------------------------------
(* Pure helpers of print_states.                                           *)

\* (td.time.timestamp() * 1_000_000_000): i64 nanoseconds of the whole seconds
TimestampNs(td) == td.time.secs * NanosPerSec

\* .try_into() of an i64 into u64 succeeds for non-negative values
TryIntoU64Ok(x) == x >= 0 /\ x < U64Mod

\* let end_time_ns = unix_end_time + end_ns;
EndTimeNs(td) == TimestampNs(td) + td.time.nanos

\* a - b on u64 overflows when b > a
SubOverflows(a, b) == b > a

\* a - b on u64 in a build without overflow checks
WrappingSub(a, b) == (a - b) % U64Mod

\* let begin_time_ns = end_time_ns - td.call_stats.duration;
BeginTimeNs(td) == WrappingSub(EndTimeNs(td), td.call_stats.duration)

\* prev_ts > state.time on DateTime<Utc>
TimeGt(a, b) == a.secs > b.secs \/ (a.secs = b.secs /\ a.nanos > b.nanos)

Digit(d) == CASE d = 0 -> "0" [] d = 1 -> "1" [] d = 2 -> "2" [] d = 3 -> "3"
              [] d = 4 -> "4" [] d = 5 -> "5" [] d = 6 -> "6" [] d = 7 -> "7"
              [] d = 8 -> "8" [] d = 9 -> "9"

\* u64::to_string: decimal digits, no sign, no leading zeros
RECURSIVE to_string(_)
to_string(n) == IF n < 10 THEN Digit(n) ELSE to_string(n \div 10) \o Digit(n % 10)

\* Map::insert: adds the key or replaces the value of an existing key
MapInsert(m, k, v) == [x \in DOMAIN m \cup {k} |-> IF x = k THEN v ELSE m[x]]

NoColor == "none"

\* json!({ "value": num_states })
StateMeta(n) == [value |-> n, color |-> NoColor]

\* json!({ "value": &waiting_state, "color": "#FFFFFF" })
WaitingMeta(n) == [value |-> n, color |-> "#FFFFFF"]

EmptyMap == [x \in {} |-> StateMeta(0)]

\* DateTime::<Utc>::from_utc(NaiveDateTime::from_timestamp(0, 0), Utc)
UnixEpochTs == [secs |-> 0, nanos |-> 0]

Title == "MinIO"

Cluster == "minio cluster"

-----------------------------------------------------------------------------
(* Initial state: the file has been read, nothing has been parsed.         *)

Init ==
    /\ raw_data \in SeqsUpTo(Records, MaxLen)
    /\ overflow_checks \in BOOLEAN
    /\ pc = "fold"
    /\ idx = 0
    /\ start = <<>>
    /\ metamap = EmptyMap
    /\ num_states = 0
    /\ host_states = [h \in {} |-> <<>>]
    /\ waiting_state = 0
    /\ header = <<>>
    /\ stdout = <<>>
    /\ stderr = <<>>
    /\ nerrors = 0
    /\ nstates = 0
    /\ hosts_left = {}
    /\ cur_host = <<>>
    /\ pos = 0
    /\ prev_api = ""
    /\ prev_ts = UnixEpochTs
    /\ panic = <<>>

Panic(msg) ==
    /\ pc' = "panicked"
    /\ panic' = <<msg>>

emitVars == <<waiting_state, header, stdout, stderr, nerrors, nstates,
              hosts_left, cur_host, pos, prev_api, prev_ts>>

-----------------------------------------------------------------------------
(* The fold: parse_data is called once per record of the file.             *)

\* Variant: start is the begin time of the first record only.
UpdateStart_FirstRecord(s, begin_time_ns) ==
    IF s = <<>> THEN <<begin_time_ns>> ELSE s

\* if start.is_none() || begin_time_ns < start.unwrap() { start = Some(..) }
UpdateStart(s, begin_time_ns) ==
    IF s = <<>> \/ begin_time_ns < s[1] THEN <<begin_time_ns>> ELSE s

\* if !metamap.contains_key(&td.api) { metamap.insert(..); num_states += 1 }
UpdateMetamap(m, n, api) ==
    IF api \notin DOMAIN m THEN MapInsert(m, api, StateMeta(n)) ELSE m

\* Variant: num_states is incremented for every record.
UpdateNumStates_EveryRecord(m, n, api) == n + 1

UpdateNumStates(m, n, api) ==
    IF api \notin DOMAIN m THEN n + 1 ELSE n

\* Variant: the record is put in front of its host's records.
PushState_InFront(acc, td) ==
    [h \in DOMAIN acc \cup {td.host} |->
        IF h = td.host
        THEN <<td>> \o (IF h \in DOMAIN acc THEN acc[h] ELSE <<>>)
        ELSE acc[h]]

\* acc.entry(td.host).or_insert_with(Vec::new).push(td)
PushState(acc, td) ==
    [h \in DOMAIN acc \cup {td.host} |->
        IF h = td.host
        THEN Append(IF h \in DOMAIN acc THEN acc[h] ELSE <<>>, td)
        ELSE acc[h]]

\* Variant: a record that does not parse is passed on instead of ending the run.
IsErr_Ignored(x) == FALSE

\* x.expect("unexpected json format") panics on Err(..)
IsErr(x) == ~x.ok

\* Variant: the fold is left as soon as one record has been consumed.
FoldDone_AfterFirst == idx >= 1 \/ idx = Len(raw_data)

\* Deserializer::from_str(&raw_data).into_iter().fold(..) ends when the
\* iterator has yielded every record of the file.
FoldDone == idx = Len(raw_data)

ParseData ==
    /\ pc = "fold"
    /\ ~FoldDone
    /\ LET x == raw_data[idx + 1]
           end_time_ns == EndTimeNs(x)
           begin_time_ns == BeginTimeNs(x)
       IN  IF IsErr(x)
           THEN /\ Panic("unexpected json format")
                /\ UNCHANGED <<idx, start, metamap, num_states, host_states>>
           ELSE IF ~TryIntoU64Ok(TimestampNs(x))
           THEN /\ Panic("failed to make unix timestamp into ns timestamp")
                /\ UNCHANGED <<idx, start, metamap, num_states, host_states>>
           ELSE IF overflow_checks
                   /\ SubOverflows(end_time_ns, x.call_stats.duration)
           THEN /\ Panic("attempt to subtract with overflow")
                /\ UNCHANGED <<idx, start, metamap, num_states, host_states>>
           ELSE /\ start' = UpdateStart(start, begin_time_ns)
                /\ metamap' = UpdateMetamap(metamap, num_states, x.api)
                /\ num_states' = UpdateNumStates(metamap, num_states, x.api)
                /\ host_states' = PushState(host_states, x)
                /\ idx' = idx + 1
                /\ UNCHANGED <<pc, panic>>
    /\ UNCHANGED <<raw_data, overflow_checks>>
    /\ UNCHANGED emitVars

\* The fold has consumed the file; "waiting" is added to the registry.
InsertWaiting ==
    /\ pc = "fold"
    /\ FoldDone
    /\ waiting_state' = num_states
    /\ metamap' = MapInsert(metamap, "waiting", WaitingMeta(num_states))
    /\ pc' = "header"
    /\ UNCHANGED <<raw_data, overflow_checks, idx, start, num_states,
                   host_states, header, stdout, stderr, nerrors, nstates,
                   hosts_left, cur_host, pos, prev_api, prev_ts, panic>>

-----------------------------------------------------------------------------
(* The header.                                                             *)

\* StateHeader { start: vec![s / 1e9, s % 1e9], title, host, states: metamap }
StateHeader(s, title, host, states) ==
    [start |-> <<s \div NanosPerSec, s % NanosPerSec>>, title |-> title,
     host |-> host, states |-> states]

\* main: print_states(&ifile, &cluster, &title) binds
\* filename = ifile, title = cluster, cluster = title
HeaderTitle == Cluster

HeaderHost == Title

PrintHeader ==
    /\ pc = "header"
    /\ IF start = <<>>
       THEN /\ Panic("called Option::unwrap() on a None value")
            /\ UNCHANGED <<header, stdout, hosts_left>>
       ELSE /\ header' = <<StateHeader(start[1], HeaderTitle, HeaderHost, metamap)>>
            /\ stdout' = Append(stdout, [line |-> "header", value |-> header'[1]])
            /\ hosts_left' = DOMAIN host_states
            /\ pc' = "hosts"
            /\ UNCHANGED panic
    /\ UNCHANGED <<raw_data, overflow_checks, idx, start, metamap, num_states,
                   host_states, waiting_state, stderr, nerrors, nstates,
                   cur_host, pos, prev_api, prev_ts>>

-----------------------------------------------------------------------------
(* The emission loops.                                                     *)

InnerLoopDone ==
    IF cur_host = <<>> THEN TRUE ELSE pos = Len(host_states[cur_host[1]])

\* Variant: prev_ts is declared before the outer loop and keeps the time of
\* the last record of the host visited before.
PrevTsForHost_Carried == prev_ts

\* let mut prev_ts = .. in the body of the outer loop: every host starts
\* from 1970-01-01T00:00:00Z.
PrevTsForHost == UnixEpochTs

\* for (host, statevec) in host_states.iter(): a HashMap iterates its keys in
\* an order the program does not control.
NextHost ==
    /\ pc = "hosts"
    /\ InnerLoopDone
    /\ \E host \in hosts_left :
        /\ hosts_left' = hosts_left \ {host}
        /\ cur_host' = <<host>>
        /\ stderr' = Append(stderr, [line |-> "generating", host |-> host])
    /\ pos' = 0
    /\ prev_api' = ""
    /\ prev_ts' = PrevTsForHost
    /\ UNCHANGED <<raw_data, overflow_checks, pc, idx, start, metamap,
                   num_states, host_states, waiting_state, header, stdout,
                   nerrors, nstates, panic>>

\* State { time: offset.to_string(), entity, state }
State(offset, entity, statenum) ==
    [line |-> "state", time |-> to_string(offset), entity |-> entity,
     state |-> statenum]

\* Variant: a record that completes at the previous record's instant is
\* reported too.
OutOfOrder_OrEqual(prev, state) == ~TimeGt(state.time, prev)

\* if prev_ts > state.time { eprintln!(..); nerrors += 1; }
OutOfOrder(prev, state) == TimeGt(prev, state.time)

\* header.states.get(&state.api).unwrap()["value"].as_u64().unwrap()
StateNum(hdr, api) == hdr.states[api].value

\* println! of the record's own state
OwnState(state, epoch, hdr) ==
    State(WrappingSub(BeginTimeNs(state), epoch), state.host,
          StateNum(hdr, state.api))

\* println! of the waiting state that follows it
WaitState(state, epoch, host, waiting) ==
    State(WrappingSub(EndTimeNs(state), epoch), host, waiting)

\* Variant: an out-of-order record is reported and skipped.
EmittedStates_SkipOutOfOrder(state, epoch, hdr, host, waiting) ==
    IF OutOfOrder(prev_ts, state)
    THEN <<>>
    ELSE <<OwnState(state, epoch, hdr), WaitState(state, epoch, host, waiting)>>

\* The two lines one iteration prints: one 'real' state, one waiting state.
EmittedStates(state, epoch, hdr, host, waiting) ==
    <<OwnState(state, epoch, hdr), WaitState(state, epoch, host, waiting)>>

\* One iteration of `for state in statevec`.
EmitState ==
    /\ pc = "hosts"
    /\ ~InnerLoopDone
    /\ LET host == cur_host[1]
           state == host_states[host][pos + 1]
           end_time_ns == EndTimeNs(state)
           begin_time_ns == BeginTimeNs(state)
           bad == OutOfOrder(prev_ts, state)
           errs == IF bad
                   THEN Append(stderr,
                          [line |-> "out_of_order", host |-> host,
                           prev_api |-> prev_api, prev_ts |-> prev_ts,
                           api |-> state.api, ts |-> state.time])
                   ELSE stderr
       IN  IF ~TryIntoU64Ok(TimestampNs(state))
           THEN /\ Panic("failed to make unix timestamp into ns timestamp")
                /\ UNCHANGED <<stdout, stderr, nerrors, nstates, pos,
                               prev_api, prev_ts>>
           ELSE IF overflow_checks
                   /\ (\/ SubOverflows(end_time_ns, state.call_stats.duration)
                       \/ SubOverflows(begin_time_ns, start[1]))
           THEN /\ Panic("attempt to subtract with overflow")
                /\ UNCHANGED <<stdout, stderr, nerrors, nstates, pos,
                               prev_api, prev_ts>>
           ELSE /\ stderr' = errs
                /\ nerrors' = IF bad THEN nerrors + 1 ELSE nerrors
                /\ prev_api' = state.api
                /\ prev_ts' = state.time
                /\ IF overflow_checks /\ SubOverflows(end_time_ns, start[1])
                   THEN /\ stdout' = Append(stdout,
                                       OwnState(state, start[1], header[1]))
                        /\ Panic("attempt to subtract with overflow")
                        /\ UNCHANGED <<nstates, pos>>
                   ELSE /\ stdout' = stdout \o
                              EmittedStates(state, start[1], header[1], host,
                                            waiting_state)
                        /\ nstates' = nstates + 2
                        /\ pos' = pos + 1
                        /\ UNCHANGED <<pc, panic>>
    /\ UNCHANGED <<raw_data, overflow_checks, idx, start, metamap, num_states,
                   host_states, waiting_state, header, hosts_left, cur_host>>

\* Variant: the summary always reports the number of states.
SummaryLine_StatesOnly(errors, states) ==
    [line |-> "states discovered", count |-> states]

\* if nerrors > 0 { eprintln!("{} out-of-order ..") } else { eprintln!("{} states ..") }
SummaryLine(errors, states) ==
    IF errors > 0
    THEN [line |-> "out-of-order timestamps discovered", count |-> errors]
    ELSE [line |-> "states discovered", count |-> states]

\* Variant: the outer loop consumes host_states (into_iter() for iter()), so
\* the timelines are gone when the loops are over.
Summary_TimelinesConsumed ==
    /\ pc = "hosts"
    /\ InnerLoopDone
    /\ hosts_left = {}
    /\ stderr' = Append(stderr, SummaryLine(nerrors, nstates))
    /\ pc' = "done"
    /\ host_states' = [h \in {} |-> <<>>]
    /\ UNCHANGED <<raw_data, overflow_checks, idx, start, metamap, num_states,
                   waiting_state, header, stdout, nerrors, nstates, hosts_left,
                   cur_host, pos, prev_api, prev_ts, panic>>

\* Both loops are over; the summary is printed and print_states returns Ok(()).
Summary ==
    /\ pc = "hosts"
    /\ InnerLoopDone
    /\ hosts_left = {}
    /\ stderr' = Append(stderr, SummaryLine(nerrors, nstates))
    /\ pc' = "done"
    /\ UNCHANGED <<raw_data, overflow_checks, idx, start, metamap, num_states,
                   host_states, waiting_state, header, stdout, nerrors,
                   nstates, hosts_left, cur_host, pos, prev_api, prev_ts,
                   panic>>

-----------------------------------------------------------------------------

Next ==
    \/ ParseData
    \/ InsertWaiting
    \/ PrintHeader
    \/ NextHost
    \/ EmitState
    \/ Summary

Spec == Init /\ [][Next]_vars

-----------------------------------------------------------------------------
(* Vocabulary of the properties.                                           *)

\* The operations of the trace and their positions in the file
Positions == 1..Len(raw_data)

\* Names of the operations among the first n records
ApisSeen(n) == {raw_data[i].api : i \in 1..n}

\* Position of the first record that carries api k
FirstSeen(k) == CHOOSE i \in Positions :
                    /\ raw_data[i].api = k
                    /\ \A j \in 1..(i - 1) : raw_data[j].api # k

\* start_time_ns of the data model: end_time_ns - duration_ns
StartTimeNs(op) == EndTimeNs(op) - op.call_stats.duration

\* No operation of the trace has a duration larger than its end time
NoUnderflow ==
    \A i \in Positions :
        ~SubOverflows(EndTimeNs(raw_data[i]), raw_data[i].call_stats.duration)

\* The operations of one entity, in arrival order
Timeline(h) == SelectSeq(raw_data, LAMBDA op : op.host = h)

IsState(l) == l.line = "state"

StateEvents == SelectSeq(stdout, IsState)

Completed == pc = "done"

Emitting == pc \in {"hosts", "done"}

RECURSIVE SumOver(_, _)
SumOver(S, f) ==
    IF S = {} THEN 0
    ELSE LET x == CHOOSE y \in S : TRUE IN f[x] + SumOver(S \ {x}, f)

\* Adjacent pairs of one entity whose later operation starts before the
\* earlier one ended
OverlappingPairs(h) ==
    LET tl == Timeline(h)
    IN  {i \in 1..(Len(tl) - 1) : StartTimeNs(tl[i + 1]) < EndTimeNs(tl[i])}

-----------------------------------------------------------------------------
(* C1. Violation detection: a completed run has counted exactly one        *)
(* violation for every pair of operations adjacent in one entity's arrival *)
(* order whose later operation starts (end_time_ns - duration_ns) before   *)
(* the earlier operation's end_time_ns; with no such pair the count is 0.  *)
(* Stated for traces whose operations all have duration_ns <= end_time_ns, *)
(* so that start_time_ns is the plain difference in every build.           *)
C1_ViolationCount ==
    (Completed /\ NoUnderflow) =>
        nerrors = SumOver(Hosts, [h \in Hosts |-> Cardinality(OverlappingPairs(h))])

(* C2. Event count: a completed run over N operations has emitted exactly  *)
(* 2 * N state events, whatever the number of violations it counted.       *)
C2_EventCount ==
    Completed => Len(StateEvents) = 2 * Len(raw_data)

C2_Witness ==
    /\ Completed
    /\ Len(raw_data) >= 3
    /\ nerrors >= 1
    /\ Len(StateEvents) = 2 * Len(raw_data)

Scanned == pc \in {"header", "hosts", "done"}

Epoch == start[1]

Min(S) == CHOOSE m \in S : \A x \in S : m <= x

(* C3. Epoch minimality: after the full scan Epoch is the minimum start    *)
(* time over all operations of the trace, and for every operation          *)
(* start_time_ns - Epoch >= 0 and end_time_ns - Epoch >= 0.                *)
C3_EpochMinimality ==
    (Scanned /\ raw_data # <<>>) =>
        /\ start = <<Min({BeginTimeNs(raw_data[i]) : i \in Positions})>>
        /\ \A i \in Positions :
            /\ BeginTimeNs(raw_data[i]) - Epoch >= 0
            /\ EndTimeNs(raw_data[i]) - Epoch >= 0

(* C4. Registry first-seen codes: while the scan runs, the registry holds  *)
(* exactly the kinds seen so far, the code of each kind is the number of   *)
(* distinct kinds seen before its first occurrence, the codes are          *)
(* 0 .. n-1 without gap or repetition, and a kind seen again consumes no   *)
(* code (the next code is the number of distinct kinds seen).              *)
C4_FirstSeenCodes ==
    pc = "fold" =>
        /\ DOMAIN metamap = ApisSeen(idx)
        /\ \A k \in DOMAIN metamap :
              metamap[k].value = Cardinality(ApisSeen(FirstSeen(k) - 1))
        /\ {metamap[k].value : k \in DOMAIN metamap}
              = 0..(Cardinality(DOMAIN metamap) - 1)
        /\ \A k, l \in DOMAIN metamap :
              metamap[k].value = metamap[l].value => k = l
        /\ num_states = Cardinality(ApisSeen(idx))

C4_Witness ==
    /\ pc = "fold"
    /\ idx = 3
    /\ raw_data[1].api # raw_data[2].api
    /\ raw_data[3].api = raw_data[1].api
    /\ metamap[raw_data[1].api].value = 0
    /\ metamap[raw_data[2].api].value = 1
    /\ num_states = 2

(* C5. Registry stability: in the final registry the code of "waiting" is  *)
(* the number of distinct kinds other than "waiting" seen in the input,    *)
(* and no other kind has that code.                                        *)
C5_WaitingCode ==
    Scanned =>
        /\ metamap["waiting"].value
              = Cardinality(ApisSeen(Len(raw_data)) \ {"waiting"})
        /\ \A k \in DOMAIN metamap \ {"waiting"} :
              metamap[k].value # metamap["waiting"].value

\* The events that carry one entity, in output order
EventsOf(h) == SelectSeq(StateEvents, LAMBDA e : e.entity = h)

\* The code the emitted header gives a kind
Registry(k) == stdout[1].value.states[k].value

(* C6. Round-trip offset law: a completed run has emitted, for every       *)
(* operation with start S, end E, entity e and kind k, the event           *)
(* (S - Epoch, e, registry[k]) and immediately after it the event          *)
(* (E - Epoch, e, registry["waiting"]), with E - Epoch >= S - Epoch, and   *)
(* nothing else; both codes are codes of the header printed before them.   *)
C6_OffsetLaw ==
    Completed =>
        /\ stdout[1].line = "header"
        /\ \A j \in 1..Len(StateEvents) :
              j % 2 = 1 => /\ j + 1 <= Len(StateEvents)
                           /\ StateEvents[j + 1].entity = StateEvents[j].entity
        /\ \A h \in Hosts :
              LET tl == Timeline(h)
                  ev == EventsOf(h)
              IN  /\ Len(ev) = 2 * Len(tl)
                  /\ \A i \in 1..Len(tl) :
                        LET S == BeginTimeNs(tl[i])
                            E == EndTimeNs(tl[i])
                        IN  /\ S - Epoch >= 0
                            /\ E - Epoch >= S - Epoch
                            /\ ev[2 * i - 1] = State(S - Epoch, h, Registry(tl[i].api))
                            /\ ev[2 * i] = State(E - Epoch, h, Registry("waiting"))

\* A record the run cannot accept: one that does not parse, or one whose
\* timestamp has no unsigned nanosecond value
BadRecord(x) == ~x.ok \/ ~TryIntoU64Ok(TimestampNs(x))

FatalInput == raw_data = <<>> \/ \E i \in Positions : BadRecord(raw_data[i])

(* C7. Fatal errors produce no output: a run over an empty trace, or over  *)
(* a trace with a malformed record at any position, never prints the       *)
(* header or a state event and never completes; and no run that panics     *)
(* has printed anything.                                                   *)
C7_FatalBeforeOutput ==
    /\ FatalInput => (stdout = <<>> /\ ~Completed)
    /\ pc = "panicked" => stdout = <<>>

\* The last of three records is the malformed one; the run ended there.
C7_Witness ==
    /\ pc = "panicked"
    /\ Len(raw_data) = 3
    /\ ~BadRecord(raw_data[1])
    /\ ~BadRecord(raw_data[2])
    /\ BadRecord(raw_data[3])
    /\ idx = 2
    /\ stdout = <<>>

(* C8. Empty trace: a run over zero operations does not end in the panic   *)
(* of unwrapping the absent minimum start time.                            *)
C8_EmptyTraceReported ==
    raw_data = <<>> => panic # <<"called Option::unwrap() on a None value">>

(* C9. Start-time underflow is fatal: the scan never commits a record      *)
(* whose duration_ns is larger than its end_time_ns, so every operation a  *)
(* run holds satisfies start_time_ns <= end_time_ns.                       *)
C9_UnderflowFatal ==
    \A h \in DOMAIN host_states :
        \A i \in 1..Len(host_states[h]) :
            LET op == host_states[h][i]
            IN  /\ ~SubOverflows(EndTimeNs(op), op.call_stats.duration)
                /\ BeginTimeNs(op) <= EndTimeNs(op)

(* C10. Phase ordering: whenever anything has been printed, the first line *)
(* is the header, it is the only header, every record of the input has     *)
(* been scanned and "waiting" is in the registry the header carries; state *)
(* events are printed only after it.                                       *)
C10_PhaseOrdering ==
    /\ stdout # <<>> =>
          /\ stdout[1].line = "header"
          /\ \A i \in 2..Len(stdout) : stdout[i].line = "state"
          /\ idx = Len(raw_data)
          /\ "waiting" \in DOMAIN stdout[1].value.states
          /\ stdout[1].value.states = metamap
    /\ Emitting => stdout # <<>>

C10_Witness ==
    /\ Completed
    /\ Len(raw_data) = 3
    /\ Len(stdout) = 7
    /\ stdout[1].line = "header"
    /\ stdout[2].line = "state"

\* Lines of stderr that report an out-of-order record
IsOutOfOrderLine(l) == l.line = "out_of_order"

LastLine(out) == out[Len(out)]

(* C11. Summary and non-failure: a run that has counted a violation has    *)
(* not failed and never fails; a completed run has printed all 2 * N       *)
(* events and returned Ok, and the last diagnostic line is the summary:    *)
(* with violations it reports their count, without it reports the number   *)
(* of state events, 2 per operation.                                       *)
C11_Summary ==
    /\ nerrors > 0 => (pc \in {"hosts", "done"} /\ panic = <<>>)
    /\ Completed =>
          /\ panic = <<>>
          /\ Len(StateEvents) = 2 * Len(raw_data)
          /\ nerrors = Len(SelectSeq(stderr, IsOutOfOrderLine))
          /\ IF nerrors > 0
             THEN LastLine(stderr) =
                    [line |-> "out-of-order timestamps discovered",
                     count |-> nerrors]
             ELSE LastLine(stderr) =
                    [line |-> "states discovered",
                     count |-> 2 * Len(raw_data)]

\* A completed run over three operations that counted a violation
C11_Witness ==
    /\ Completed
    /\ Len(raw_data) = 3
    /\ nerrors >= 1
    /\ LastLine(stderr).line = "out-of-order timestamps discovered"
    /\ LastLine(stderr).count = nerrors
    /\ Len(StateEvents) = 6

\* Kinds of the whole input
AllApis == ApisSeen(Len(raw_data))

\* The registry the input determines: every real kind numbered by the
\* distinct kinds that precede its first occurrence, "waiting" numbered by
\* the number of distinct kinds
RegistryOfInput ==
    [k \in AllApis \cup {"waiting"} |->
        IF k = "waiting"
        THEN WaitingMeta(Cardinality(AllApis))
        ELSE StateMeta(Cardinality(ApisSeen(FirstSeen(k) - 1)))]

\* The Epoch the input determines
EpochOfInput == Min({BeginTimeNs(raw_data[i]) : i \in Positions})

(* C12. Determinism: the kind-to-code assignments (with the "waiting"      *)
(* code) and the Epoch a run holds at the end of its scan are the values   *)
(* the input sequence alone determines, whatever the build and whatever    *)
(* the run does afterwards; so any two runs over one input end the scan    *)
(* with identical assignments and an identical Epoch.                      *)
C12_ScanDeterminedByInput ==
    (Scanned /\ raw_data # <<>>) =>
        /\ metamap = RegistryOfInput
        /\ waiting_state = RegistryOfInput["waiting"].value
        /\ start = <<EpochOfInput>>

\* The scan of three operations of two kinds has ended, and the earliest
\* start is not the first record's
C12_Witness ==
    /\ pc = "header"
    /\ Len(raw_data) = 3
    /\ Cardinality(AllApis) = 2
    /\ "waiting" \notin AllApis
    /\ metamap["waiting"].value = 2
    /\ Epoch < BeginTimeNs(raw_data[1])

DigitValue(c) == CASE c = "0" -> 0 [] c = "1" -> 1 [] c = "2" -> 2 [] c = "3" -> 3
                   [] c = "4" -> 4 [] c = "5" -> 5 [] c = "6" -> 6 [] c = "7" -> 7
                   [] c = "8" -> 8 [] c = "9" -> 9

\* The number a decimal string of the output denotes
RECURSIVE ParseDecimal(_)
ParseDecimal(str) ==
    IF Len(str) = 1 THEN DigitValue(str)
    ELSE 10 * ParseDecimal(SubSeq(str, 1, Len(str) - 1))
         + DigitValue(SubSeq(str, Len(str), Len(str)))

\* Offset of an emitted event, as a reader of the output gets it
OffsetOf(e) == ParseDecimal(e.time)

(* C13. Zero reported violations implies a time-ordered timeline: in a     *)
(* completed run that counted no violation, the offsets of the events of   *)
(* every entity are non-decreasing in emission order (start_1, end_1,      *)
(* start_2, end_2, ...). Stated for traces whose operations all have       *)
(* duration_ns <= end_time_ns.                                             *)
C13_ZeroViolationsOrdered ==
    (Completed /\ nerrors = 0 /\ NoUnderflow) =>
        \A h \in Hosts :
            LET ev == EventsOf(h)
            IN  \A i \in 1..(Len(ev) - 1) : OffsetOf(ev[i]) <= OffsetOf(ev[i + 1])

\* Positions i >= 2 of one entity's timeline whose predecessor completed
\* strictly later than operation i
LaterPredecessor(h) ==
    LET tl == Timeline(h)
    IN  {i \in 2..Len(tl) : TimeGt(tl[i - 1].time, tl[i].time)}

\* The out-of-order reports of one entity, in the order printed
ReportsOf(h) ==
    SelectSeq(stderr, LAMBDA l : l.line = "out_of_order" /\ l.host = h)

\* The report the program prints for operation i of timeline tl of host h
ReportFor(h, tl, i) ==
    [line |-> "out_of_order", host |-> h,
     prev_api |-> tl[i - 1].api, prev_ts |-> tl[i - 1].time,
     api |-> tl[i].api, ts |-> tl[i].time]

(* C14. Pairwise guard as coded: a completed run has counted operation i   *)
(* of an entity exactly when operation i-1 of the same entity completed    *)
(* strictly later than operation i: equal completion timestamps and the    *)
(* first operation of an entity are never counted, and every report names  *)
(* operation i-1 and operation i of one entity, nothing else.              *)
C14_PairwiseGuard ==
    Completed =>
        /\ nerrors = SumOver(Hosts,
                        [h \in Hosts |-> Cardinality(LaterPredecessor(h))])
        /\ \A h \in Hosts :
              LET tl == Timeline(h)
                  rep == ReportsOf(h)
              IN  /\ Len(rep) = Cardinality(LaterPredecessor(h))
                  /\ \A j \in 1..Len(rep) :
                        \E i \in LaterPredecessor(h) : rep[j] = ReportFor(h, tl, i)
                  /\ \A i \in LaterPredecessor(h) :
                        \E j \in 1..Len(rep) : rep[j] = ReportFor(h, tl, i)

\* Three operations of one entity: the second completes before the first
\* (counted), the third at the same instant as the second (not counted,
\* although the first completed later than it too).
C14_Witness ==
    /\ Completed
    /\ \E h \in Hosts :
          LET tl == Timeline(h)
          IN  /\ Len(tl) = 3
              /\ TimeGt(tl[1].time, tl[2].time)
              /\ tl[2].time = tl[3].time
              /\ TimeGt(tl[1].time, tl[3].time)
    /\ nerrors = 1

\* The records the fold has consumed
Consumed == SubSeq(raw_data, 1, idx)

\* The events one entity's timeline produces, in timeline order
RECURSIVE EventsOfTimeline(_, _)
EventsOfTimeline(tl, h) ==
    IF tl = <<>> THEN <<>>
    ELSE EmittedStates(Head(tl), Epoch, header[1], h, waiting_state)
         \o EventsOfTimeline(Tail(tl), h)

(* C15. Per-entity grouping and order: at every moment the timelines are   *)
(* those of the entities seen so far, and the timeline of an entity holds  *)
(* exactly the consumed operations of that entity in input order; in a     *)
(* completed run the events that carry an entity are the events of its     *)
(* operations in that order, every event carries an entity of the input,   *)
(* and the events of one entity are one contiguous block of the output.    *)
C15_GroupingAndOrder ==
    /\ DOMAIN host_states = {Consumed[i].host : i \in 1..idx}
    /\ \A h \in DOMAIN host_states :
          host_states[h] = SelectSeq(Consumed, LAMBDA op : op.host = h)
    /\ Completed =>
          /\ \A h \in Hosts : EventsOf(h) = EventsOfTimeline(Timeline(h), h)
          /\ \A j \in 1..Len(StateEvents) :
                StateEvents[j].entity \in DOMAIN host_states
          /\ \A i, k \in 1..Len(StateEvents) :
                (i < k /\ StateEvents[i].entity = StateEvents[k].entity) =>
                    \A j \in i..k : StateEvents[j].entity = StateEvents[i].entity

\* Two different operations of one entity with an operation of another
\* entity between them in the input
C15_Witness ==
    /\ Completed
    /\ Len(raw_data) = 3
    /\ raw_data[1].host = raw_data[3].host
    /\ raw_data[2].host # raw_data[1].host
    /\ raw_data[1] # raw_data[3]
    /\ Len(EventsOf(raw_data[1].host)) = 4
    /\ Len(EventsOf(raw_data[2].host)) = 2

\* The header the input determines
HeaderOfInput ==
    StateHeader(EpochOfInput, HeaderTitle, HeaderHost, RegistryOfInput)

\* The events of one entity the input determines
RECURSIVE EventsOfInput(_, _)
EventsOfInput(tl, h) ==
    IF tl = <<>> THEN <<>>
    ELSE <<State(WrappingSub(BeginTimeNs(Head(tl)), EpochOfInput), h,
                 RegistryOfInput[Head(tl).api].value),
           State(WrappingSub(EndTimeNs(Head(tl)), EpochOfInput), h,
                 RegistryOfInput["waiting"].value)>>
         \o EventsOfInput(Tail(tl), h)

\* The entities of the input
HostsOfInput == {raw_data[i].host : i \in Positions}

\* All orders in which the entities of a set can be visited
RECURSIVE VisitOrders(_)
VisitOrders(S) ==
    IF S = {} THEN {<<>>}
    ELSE UNION {{<<h>> \o o : o \in VisitOrders(S \ {h})} : h \in S}

RECURSIVE Blocks(_)
Blocks(order) ==
    IF order = <<>> THEN <<>>
    ELSE EventsOf(Head(order)) \o Blocks(Tail(order))

(* C16. Entity-order independence: whatever order the entities are visited *)
(* in, a completed run has printed the header the input determines, for    *)
(* every entity the event sequence the input determines, and has the       *)
(* violation count and the event count the input determines; its output    *)
(* after the header is the per-entity blocks laid end to end in one of the *)
(* visiting orders, so runs differ in the order of whole blocks only.      *)
C16_OrderIndependence ==
    Completed =>
        /\ stdout[1] = [line |-> "header", value |-> HeaderOfInput]
        /\ \A h \in Hosts : EventsOf(h) = EventsOfInput(Timeline(h), h)
        /\ Len(StateEvents) = 2 * Len(raw_data)
        /\ \E order \in VisitOrders(HostsOfInput) : StateEvents = Blocks(order)
        /\ nerrors = SumOver(Hosts,
                        [h \in Hosts |-> Cardinality(LaterPredecessor(h))])
        /\ nstates = 2 * Len(raw_data)

\* Two entities, and the entity of the first record is visited last
C16_Witness ==
    /\ Completed
    /\ Len(raw_data) = 3
    /\ Cardinality(HostsOfInput) = 2
    /\ stdout[2].entity # raw_data[1].host
    /\ LastLine(StateEvents).entity = raw_data[1].host

\* What the scan has built: Epoch, the registry and the entity timelines
aggregated == <<start, metamap, num_states, waiting_state, host_states>>

(* C17. Frozen aggregation results: once the scan has completed and        *)
(* "waiting" has been added, no step changes Epoch, the registry or a      *)
(* timeline; a step of the emission loops changes nothing but the          *)
(* previous-operation record, the violation counter and the event counter, *)
(* apart from its position in the loops and the lines it prints.           *)
C17_FrozenAggregation ==
    [][/\ pc \in {"header", "hosts"} => UNCHANGED aggregated
       /\ pc = "hosts" =>
             UNCHANGED <<raw_data, overflow_checks, idx, header, aggregated>>]_vars

\* The emission loops have emitted two operations and counted a violation
C17_Witness ==
    /\ pc = "hosts"
    /\ nstates >= 4
    /\ nerrors >= 1
    /\ prev_api # ""
    /\ start # <<>>
    /\ "waiting" \in DOMAIN metamap

(* C18. Header labels: the title field of the emitted header is the        *)
(* configured display title and its host field is the configured cluster   *)
(* label; the two are not exchanged.                                       *)
C18_HeaderLabels ==
    stdout # <<>> =>
        /\ stdout[1].value.title = Title
        /\ stdout[1].value.host = Cluster

\* The pair start[0], start[1] of the emitted header
HeaderStart == stdout[1].value.start

HeaderStartNs == HeaderStart[1] * NanosPerSec + HeaderStart[2]

(* C19. Header start encoding: the start of the header is the pair         *)
(* [Epoch div 10^9, Epoch mod 10^9] with 0 <= start[1] < 10^9, it          *)
(* recombines to Epoch, and for every emitted event the recombined start   *)
(* plus the event's offset is the absolute start time, respectively end    *)
(* time, of the operation the event belongs to.                            *)
C19_HeaderStart ==
    Completed =>
        /\ HeaderStart = <<Epoch \div NanosPerSec, Epoch % NanosPerSec>>
        /\ HeaderStart[2] >= 0
        /\ HeaderStart[2] < NanosPerSec
        /\ HeaderStartNs = Epoch
        /\ \A h \in Hosts :
              LET tl == Timeline(h)
                  ev == EventsOf(h)
              IN  \A i \in 1..Len(tl) :
                    /\ HeaderStartNs + OffsetOf(ev[2 * i - 1]) = BeginTimeNs(tl[i])
                    /\ HeaderStartNs + OffsetOf(ev[2 * i]) = EndTimeNs(tl[i])

====
